---- MODULE Spec2Model ----
(***************************************************************************)
(* The fetch-aggregate-cache pipeline of the Cloudflare analytics display: *)
(* fetchAnalyticsData (src/src/services/analyticsService.js), the site     *)
(* availability check (services/availability.js) and the serving layer of  *)
(* server.js that calls them (startup fetch, interval timer, GET           *)
(* /api/analytics, GET /health); and, each on its own, the dashboard       *)
(* client that polls the read endpoint (public/js/dashboard-class.js) and  *)
(* the webhook listener that starts deployments.                           *)
(*                                                                         *)
(* Node runs every handler to its next await without interleaving, so one  *)
(* action is one such run-to-completion step: the invocation up to the     *)
(* first await, and then the continuation after each awaited upstream call.*)
(***************************************************************************)
EXTENDS Integers, Sequences, FiniteSets, TLC

VARIABLES
    analyticsCache,   \* the module-level cache object {data, lastUpdated, isUpdating}
    calls,            \* the frames of the calls of fetchAnalyticsData that are suspended
    returned,         \* the frame of the call that settled last, with what it returned
                      \* (or the response of GET /health, when that was served last)
    clock,            \* the wall clock read by new Date() / Date.now()
    listening,        \* the app.listen callback has run
    SITE_URL,         \* the configured site URL ("" when not configured)
    dashboard,        \* the AnalyticsDashboard object of a browser page
    webhook           \* the webhook listener process

vars == <<analyticsCache, calls, returned, clock, listening, SITE_URL, dashboard, webhook>>

----------------------------------------------------------------------------
(* Bounds of the model *)

MaxInFlight == 2      \* suspended calls of fetchAnalyticsData (the code keeps at most 1)
MaxTime == 1         \* the clock runs from 0 to MaxTime
MaxBuckets == 2      \* hourly buckets of a primary response fed to the aggregation
MaxGeoBuckets == 2
MaxFetches == 2      \* requests of one dashboard in flight (the code keeps at most 1)
MaxDeployments == 2  \* deployments the webhook listener starts   \* hourly buckets of a secondary response fed to the aggregation

(* Program constants *)

REFRESH_INTERVAL == 30
TopCountries == 10
SignatureLength == 71   \* 'sha256=' and 64 hexadecimal digits
ErrorMarker == "Failed to fetch data from Cloudflare GraphQL API"

----------------------------------------------------------------------------
(* JavaScript values *)

Null == [null |-> TRUE]          \* null / undefined where an object is expected
Undefined == -1                  \* an absent numeric field (counts are never negative)

\* an array-valued property that is missing (the || [] and if (...) tests); a
\* null array is a missing one
Absent(rec, field) == field \notin DOMAIN rec

\* x || 0 on a numeric field
OrZero(x) == IF x = Undefined THEN 0 ELSE x

\* Math.round(n * 0.8) for an integer n >= 0: 4n/5 is never half-way between
\* two integers, so rounding is to the nearest integer.
Round08(n) == (8 * n + 5) \div 10

\* Math.round(x * (num / den)) for integers x, num >= 0 and den > 0
\* (Math.round rounds a half up).
RoundRatio(x, num, den) == (2 * x * num + den) \div (2 * den)

\* Date.prototype.toISOString: the text of the instant t
ToISOString(t) == [iso |-> t]

\* a Date object for the instant t
Date(t) == [time |-> t]

----------------------------------------------------------------------------
(* Aggregation: lines 84-150 of fetchAnalyticsData, as pure operators.     *)
(* A response body is Null, [data |-> Null] or                             *)
(* [data |-> [zones |-> <<[httpRequests1hGroups |-> groups]>>]].           *)

\* the sum of a sequence of numbers (a reduce with +, starting from 0)
RECURSIVE SumSeq(_)
SumSeq(seq) ==
    IF seq = <<>> THEN 0 ELSE Head(seq) + SumSeq(Tail(seq))

\* body.data?.viewer?.zones?.[0]?.httpRequests1hGroups || []
GroupsOf(body) ==
    IF body.data = Null THEN <<>>
    ELSE IF body.data.zones = <<>> THEN <<>>
    ELSE body.data.zones[1].httpRequests1hGroups

\* mutant: a response without hourly records is taken for a failure
PrimaryThrowsNoRecords(body) ==
    \/ body = Null
    \/ GroupsOf(body) = <<>>
    \/ \E i \in 1..Len(GroupsOf(body)) :
          GroupsOf(body)[i].sum = Null \/ GroupsOf(body)[i].uniq = Null

\* The reads that raise a TypeError: .data of a null body, .requests of a
\* bucket without sum, .uniques of a bucket without uniq.
PrimaryThrows(body) ==
    \/ body = Null
    \/ \E i \in 1..Len(GroupsOf(body)) :
          GroupsOf(body)[i].sum = Null \/ GroupsOf(body)[i].uniq = Null

GeoThrows(body) ==
    \/ body = Null
    \/ \E i \in 1..Len(GroupsOf(body)) : GroupsOf(body)[i].sum = Null

\* timeseriesData.reduce(...)
TotalsOf(groups) ==
    LET D == 1..Len(groups)
    IN [requests |-> SumSeq([i \in D |-> OrZero(groups[i].sum.requests)]),
        pageviews |-> SumSeq([i \in D |-> OrZero(groups[i].sum.pageViews)]),
        bytes |-> SumSeq([i \in D |-> OrZero(groups[i].sum.bytes)]),
        threats |-> SumSeq([i \in D |-> OrZero(groups[i].sum.threats)]),
        uniques |-> SumSeq([i \in D |-> OrZero(groups[i].uniq.uniques)]),
        cachedRequests |-> SumSeq([i \in D |-> OrZero(groups[i].sum.cachedRequests)]),
        cachedBytes |-> SumSeq([i \in D |-> OrZero(groups[i].sum.cachedBytes)])]

\* timeseriesData.map(...)
TimeseriesPoint(item) ==
    [datetime |-> item.dimensions.datetime,
     requests |-> OrZero(item.sum.requests),
     pageviews |-> OrZero(item.sum.pageViews),
     bytes |-> OrZero(item.sum.bytes),
     threats |-> OrZero(item.sum.threats),
     uniques |-> OrZero(item.uniq.uniques),
     cachedRequests |-> OrZero(item.sum.cachedRequests),
     cachedBytes |-> OrZero(item.sum.cachedBytes),
     responseStatusMap |-> IF Absent(item.sum, "responseStatusMap") THEN <<>>
                           ELSE item.sum.responseStatusMap]

\* mutant: buckets without requests are left out of the series
TimeseriesOfBusy(groups) ==
    LET Busy(g) == OrZero(g.sum.requests) > 0
        busy == SelectSeq(groups, Busy)
    IN [i \in 1..Len(busy) |-> TimeseriesPoint(busy[i])]

TimeseriesOf(groups) == [i \in 1..Len(groups) |-> TimeseriesPoint(groups[i])]

\* mutant: the substitution triggers as soon as one point has no page views
AllPageviewsZeroSome(ts) ==
    Len(ts) > 0 /\ \E i \in 1..Len(ts) : ts[i].pageviews = 0

\* timeseries.length > 0 && timeseries.every(pt => (pt.pageviews || 0) === 0)
AllPageviewsZero(ts) ==
    Len(ts) > 0 /\ \A i \in 1..Len(ts) : ts[i].pageviews = 0

\* the zero-pageview substitution of the time series
SubstitutePageviews(ts) ==
    IF AllPageviewsZero(ts)
    THEN [i \in 1..Len(ts) |-> [ts[i] EXCEPT !.pageviews = Round08(ts[i].requests)]]
    ELSE ts

\* mutant: totals.pageviews is not recomputed after the substitution
SubstituteTotalsStale(totals, ts) == totals

\* totals after the substitution has recomputed totals.pageviews
SubstituteTotals(totals, ts) ==
    IF AllPageviewsZero(ts)
    THEN [totals EXCEPT !.pageviews =
             SumSeq([i \in 1..Len(ts) |-> SubstitutePageviews(ts)[i].pageviews])]
    ELSE totals

\* m.edgeResponseStatus || m.httpStatusCode
StatusCode(m) ==
    IF m.edgeResponseStatus # Undefined /\ m.edgeResponseStatus # 0
    THEN m.edgeResponseStatus ELSE m.httpStatusCode

\* mutant: the upper end of a class is included (code <= hi)
StatusBucketInclusive(ts, lo, hi) ==
    LET inClass(m) == IF StatusCode(m) >= lo /\ StatusCode(m) <= hi
                      THEN OrZero(m.requests) ELSE 0
        ofPoint(pt) == SumSeq([j \in 1..Len(pt.responseStatusMap) |->
                                  inClass(pt.responseStatusMap[j])])
    IN SumSeq([i \in 1..Len(ts) |-> ofPoint(ts[i])])

\* one class of the HTTP status histogram, summed over every point
StatusBucket(ts, lo, hi) ==
    LET inClass(m) == IF StatusCode(m) >= lo /\ StatusCode(m) < hi
                      THEN OrZero(m.requests) ELSE 0
        ofPoint(pt) == SumSeq([j \in 1..Len(pt.responseStatusMap) |->
                                  inClass(pt.responseStatusMap[j])])
    IN SumSeq([i \in 1..Len(ts) |-> ofPoint(ts[i])])

HttpStatusAgg(ts) ==
    [s2xx |-> StatusBucket(ts, 200, 300),
     s3xx |-> StatusBucket(ts, 300, 400),
     s4xx |-> StatusBucket(ts, 400, 500),
     s5xx |-> StatusBucket(ts, 500, 600)]

\* every countryMap entry of the secondary window, in scan order
RECURSIVE CountryEntries(_)
CountryEntries(groups) ==
    IF groups = <<>> THEN <<>>
    ELSE (IF Absent(Head(groups).sum, "countryMap") THEN <<>>
          ELSE Head(groups).sum.countryMap) \o CountryEntries(Tail(groups))

\* mutant: a later bucket overwrites the country's count instead of adding to it
AddCountryOverwrite(totals, entry) ==
    IF \E i \in 1..Len(totals) : totals[i].country = entry.clientCountryName
    THEN [i \in 1..Len(totals) |->
            IF totals[i].country = entry.clientCountryName
            THEN [totals[i] EXCEPT !.requests = OrZero(entry.requests)]
            ELSE totals[i]]
    ELSE Append(totals, [country |-> entry.clientCountryName,
                         requests |-> OrZero(entry.requests)])

\* countryTotals[name] = (countryTotals[name] || 0) + requests; the object keeps
\* its keys in the order in which they were first assigned
AddCountry(totals, entry) ==
    IF \E i \in 1..Len(totals) : totals[i].country = entry.clientCountryName
    THEN [i \in 1..Len(totals) |->
            IF totals[i].country = entry.clientCountryName
            THEN [totals[i] EXCEPT !.requests = @ + OrZero(entry.requests)]
            ELSE totals[i]]
    ELSE Append(totals, [country |-> entry.clientCountryName,
                         requests |-> OrZero(entry.requests)])

\* geoData.forEach(... countryMap.forEach ...)
RECURSIVE FoldCountries(_, _)
FoldCountries(totals, entries) ==
    IF entries = <<>> THEN totals
    ELSE FoldCountries(AddCountry(totals, Head(entries)), Tail(entries))

CountryTotals(groups) == FoldCountries(<<>>, CountryEntries(groups))

\* mutant: an unstable sort, an entry goes before the entries equal to it
InsertSortedBeforeEqual(sorted, e) ==
    LET k == Cardinality({i \in 1..Len(sorted) : sorted[i].requests > e.requests})
    IN SubSeq(sorted, 1, k) \o <<e>> \o SubSeq(sorted, k + 1, Len(sorted))

\* Array.prototype.sort((a, b) => b.requests - a.requests): stable, descending
InsertSorted(sorted, e) ==
    LET k == Cardinality({i \in 1..Len(sorted) : sorted[i].requests >= e.requests})
    IN SubSeq(sorted, 1, k) \o <<e>> \o SubSeq(sorted, k + 1, Len(sorted))

\* mutant: the entries are left in insertion order
SortDescMissing(sorted, rest) == sorted \o rest

RECURSIVE SortDesc(_, _)
SortDesc(sorted, rest) ==
    IF rest = <<>> THEN sorted
    ELSE SortDesc(InsertSorted(sorted, Head(rest)), Tail(rest))

\* Object.entries(countryTotals).map(...).sort(...).slice(0, 10)
Geographic(groups) ==
    LET ct == CountryTotals(groups)
        mapped == [i \in 1..Len(ct) |->
                     [country |-> ct[i].country,
                      requests |-> ct[i].requests,
                      pageviews |-> Round08(ct[i].requests)]]
        sorted == SortDesc(<<>>, mapped)
    IN SubSeq(sorted, 1, IF Len(sorted) < TopCountries THEN Len(sorted)
                         ELSE TopCountries)

\* mutant: the ratio is taken without testing totals.requests
CacheRatioUnguarded(totals) ==
    [num |-> totals.cachedRequests,
     den |-> IF totals.requests > 0 THEN totals.requests ELSE 1]

\* cacheRatio as the fraction num/den (0/1 when there are no requests)
CacheRatio(totals) ==
    IF totals.requests > 0
    THEN [num |-> totals.cachedRequests, den |-> totals.requests]
    ELSE [num |-> 0, den |-> 1]

CacheMetrics(totals) ==
    LET r == CacheRatio(totals)
    IN [cachedRequests |-> totals.cachedRequests,
        cachedBytes |-> totals.cachedBytes,
        cacheRatio |-> r,
        estCachedPageviews |-> RoundRatio(totals.pageviews, r.num, r.den),
        estCachedUniques |-> RoundRatio(totals.uniques, r.num, r.den)]

\* the {data: {data: {viewer: {zones: [{httpRequests1hGroups: []}]}}}} that
\* stands in for a failed geographic query
GeoFallback == [data |-> [zones |-> <<[httpRequests1hGroups |-> <<>>]>>]]

\* lines 84-150: what is computed from the two response bodies
Aggregate(primaryBody, geoBody) ==
    LET raw == TimeseriesOf(GroupsOf(primaryBody))
        timeseries == SubstitutePageviews(raw)
        totals == SubstituteTotals(TotalsOf(GroupsOf(primaryBody)), raw)
    IN [timeseries |-> timeseries,
        totals |-> totals,
        geographic |-> Geographic(GroupsOf(geoBody)),
        httpStatus |-> HttpStatusAgg(timeseries),
        cache |-> CacheMetrics(totals)]

\* processedData (lines 154-169)
ProcessedData(agg, siteStatus, now) ==
    [timeseries |-> agg.timeseries,
     totals |-> agg.totals,
     geographic |-> agg.geographic,
     httpStatus |-> agg.httpStatus,
     cache |-> agg.cache,
     siteStatus |-> siteStatus,
     lastUpdated |-> ToISOString(now),
     refreshInterval |-> REFRESH_INTERVAL]

\* mutant: the fallback object carries no error marker
ErrorSnapshotUnmarked(t) ==
    [timeseries |-> <<>>,
     totals |-> [requests |-> 0, pageviews |-> 0, bytes |-> 0, threats |-> 0,
                 uniques |-> 0],
     geographic |-> <<>>,
     httpStatus |-> <<>>,
     lastUpdated |-> ToISOString(t),
     refreshInterval |-> REFRESH_INTERVAL]

\* the object returned by the catch block when nothing is cached (lines 185-193)
ErrorSnapshot(t) ==
    [timeseries |-> <<>>,
     totals |-> [requests |-> 0, pageviews |-> 0, bytes |-> 0, threats |-> 0,
                 uniques |-> 0],
     geographic |-> <<>>,
     httpStatus |-> <<>>,
     lastUpdated |-> ToISOString(t),
     refreshInterval |-> REFRESH_INTERVAL,
     error |-> ErrorMarker]

----------------------------------------------------------------------------
(* checkSiteAvailability (services/availability.js).  The outcome of       *)
(* axios.get is [code, status]: status > 0 when a response arrived, code   *)
(* "" when axios resolved.                                                 *)

Message(text, n1, n2) == [text |-> text, n1 |-> n1, n2 |-> n2]

NoSiteUrl == [status |-> "unknown", message |-> Message("No site URL configured", 0, 0)]

\* validateStatus: (status) => status < 500
AxiosResolves(outcome) == outcome.code = "" /\ outcome.status > 0 /\ outcome.status < 500

\* mutant: without the catch block, a rejected axios.get yields no status
ClassifySiteNoCatch(outcome, startTime, endTime) ==
    IF AxiosResolves(outcome)
    THEN [status |-> "online", statusCode |-> outcome.status,
          responseTime |-> endTime - startTime,
          message |-> Message("HTTP %d - %dms", outcome.status, endTime - startTime)]
    ELSE Null

ClassifySite(outcome, startTime, endTime) ==
    IF AxiosResolves(outcome)
    THEN [status |-> "online", statusCode |-> outcome.status,
          responseTime |-> endTime - startTime,
          message |-> Message("HTTP %d - %dms", outcome.status, endTime - startTime)]
    ELSE IF outcome.code = "ENOTFOUND"
    THEN [status |-> "offline", message |-> Message("DNS resolution failed", 0, 0)]
    ELSE IF outcome.code = "ECONNREFUSED"
    THEN [status |-> "offline", message |-> Message("Connection refused", 0, 0)]
    ELSE IF outcome.code = "TIMEOUT"
    THEN [status |-> "offline", message |-> Message("Request timeout", 0, 0)]
    ELSE IF outcome.status > 0
    THEN [status |-> "error", statusCode |-> outcome.status,
          message |-> Message("HTTP %d", outcome.status, 0)]
    ELSE [status |-> "offline", message |-> Message(outcome.code, 0, 0)]

----------------------------------------------------------------------------
(* Upstream responses the model draws from *)

StatusEntry(code, n) ==
    [edgeResponseStatus |-> code, httpStatusCode |-> Undefined, requests |-> n]

HourBucket(t, req, pv, cached, statusMap) ==
    [dimensions |-> [datetime |-> t],
     sum |-> [requests |-> req, pageViews |-> pv, bytes |-> 10 * req,
              threats |-> 1, cachedRequests |-> cached, cachedBytes |-> 10 * cached,
              responseStatusMap |-> statusMap],
     uniq |-> [uniques |-> 3]]

GeoBucket(t, countryMap) ==
    [dimensions |-> [datetime |-> t], sum |-> [countryMap |-> countryMap]]

CountryEntry(name, req) == [clientCountryName |-> name, requests |-> req, bytes |-> 10 * req]

ZoneBody(groups) == [data |-> [zones |-> <<[httpRequests1hGroups |-> groups]>>]]

\* a bucket whose sum is null: reading item.sum.requests raises a TypeError
BrokenBucket == [dimensions |-> [datetime |-> 1], sum |-> Null, uniq |-> Null]

PrimaryBodies ==
    { ZoneBody(<<HourBucket(1, 10, 0, 4, <<StatusEntry(200, 8), StatusEntry(404, 2)>>),
                 HourBucket(2, 20, 5, 10, <<StatusEntry(302, 5), StatusEntry(700, 1)>>)>>),
      [data |-> Null],
      ZoneBody(<<BrokenBucket>>) }

GeoBodies ==
    { ZoneBody(<<GeoBucket(1, <<CountryEntry("US", 60), CountryEntry("DE", 50)>>),
                 GeoBucket(2, <<CountryEntry("FR", 200), CountryEntry("US", 40)>>)>>),
      ZoneBody(<<BrokenBucket>>) }

AvailOutcomes ==
    { [code |-> "", status |-> 200],
      [code |-> "ERR_BAD_RESPONSE", status |-> 503] }

SiteUrls == {"", "https://example.org"}

\* every way axios.get of the availability check can settle: resolved (below
\* 500), rejected with a response (500 and above), rejected without one
SiteOutcomes ==
    { [code |-> "", status |-> 200],
      [code |-> "", status |-> 404],
      [code |-> "ERR_BAD_RESPONSE", status |-> 503],
      [code |-> "ENOTFOUND", status |-> 0],
      [code |-> "ECONNREFUSED", status |-> 0],
      [code |-> "TIMEOUT", status |-> 0],
      [code |-> "ECONNABORTED", status |-> 0] }

Callers == {"startup", "timer", "request"}

\* Aggregate of every pair of bodies that can be aggregated, evaluated once:
\* the pairs <<bodies, aggregate>>
AggregateTable ==
    {<<pg, Aggregate(pg[1], pg[2])>> :
        pg \in {b \in PrimaryBodies : ~PrimaryThrows(b)}
                \X {b \in GeoBodies \cup {GeoFallback} : ~GeoThrows(b)}}

Aggregated(primaryBody, geoBody) ==
    IF \E e \in AggregateTable : e[1] = <<primaryBody, geoBody>>
    THEN (CHOOSE e \in AggregateTable : e[1] = <<primaryBody, geoBody>>)[2]
    ELSE Aggregate(primaryBody, geoBody)

----------------------------------------------------------------------------
(* Upstream records for the aggregation: every window of at most MaxBuckets *)
(* (MaxGeoBuckets) hourly buckets drawn from the buckets below, which have  *)
(* absent fields, zero and non-zero page views, status histograms with      *)
(* codes in and outside [200,600), and more than TopCountries countries.    *)

RawBucket(req, pv, uniques, cached, statusMap) ==
    [dimensions |-> [datetime |-> 1],
     sum |-> [requests |-> req, pageViews |-> pv, bytes |-> 7, threats |-> Undefined,
              cachedRequests |-> cached, cachedBytes |-> 2,
              responseStatusMap |-> statusMap],
     uniq |-> [uniques |-> uniques]]

\* a bucket that has cachedRequests only: no counts, no histogram
BareBucket(cached) ==
    [dimensions |-> [datetime |-> 1],
     sum |-> [requests |-> Undefined, pageViews |-> Undefined, bytes |-> Undefined,
              threats |-> Undefined, cachedRequests |-> cached,
              cachedBytes |-> Undefined],
     uniq |-> [uniques |-> Undefined]]

\* a histogram entry that has httpStatusCode only, and one without any code
LegacyEntry(code, n) ==
    [edgeResponseStatus |-> Undefined, httpStatusCode |-> code, requests |-> n]

AggBuckets ==
    { RawBucket(10, 0, 3, 4, <<StatusEntry(200, 8), StatusEntry(404, 2)>>),
      RawBucket(20, 0, 6, 10, <<StatusEntry(302, 5), StatusEntry(700, 1),
                                 StatusEntry(503, 3), StatusEntry(199, 2)>>),
      RawBucket(20, 5, 6, 0, <<StatusEntry(600, 4), LegacyEntry(500, 6),
                                StatusEntry(0, 1), StatusEntry(299, Undefined)>>),
      BareBucket(3),
      RawBucket(0, 0, 1, Undefined, <<LegacyEntry(Undefined, 5)>>),
      RawBucket(5, 0, 2, 5, <<StatusEntry(200, 9)>>) }

AggGeoBuckets ==
    { GeoBucket(1, <<CountryEntry("US", 100), CountryEntry("DE", 50),
                     CountryEntry("FR", 200)>>),
      GeoBucket(1, <<CountryEntry("DE", 50), CountryEntry("IT", 100),
                     CountryEntry("XX", Undefined)>>),
      GeoBucket(1, <<CountryEntry("AR", 6), CountryEntry("BE", 7), CountryEntry("CA", 8),
                     CountryEntry("DK", 5), CountryEntry("ES", 6), CountryEntry("FI", 7),
                     CountryEntry("GR", 8), CountryEntry("HU", 5), CountryEntry("IE", 6),
                     CountryEntry("JP", 7), CountryEntry("KR", 8), CountryEntry("LT", 5)>>),
      [dimensions |-> [datetime |-> 1], sum |-> [bytes |-> 0]] }

WindowsOf(buckets, n) == UNION {[1..k -> buckets] : k \in 0..n}

AggPrimaryBodies ==
    {ZoneBody(w) : w \in WindowsOf(AggBuckets, MaxBuckets)} \cup {[data |-> Null]}

AggGeoBodies == {ZoneBody(w) : w \in WindowsOf(AggGeoBuckets, MaxGeoBuckets)}

----------------------------------------------------------------------------
(* fetchAnalyticsData and its callers *)

\* mutant: the single-flight test is missing
GuardHitNever(cache) == FALSE

\* mutant: the guard returns nothing instead of the cached snapshot
GuardReturnNothing(cache) == Null

\* mutant: the flag is not set before the first await
SetUpdatingNot(cache) == cache

\* line 14: the single-flight test
GuardHit(cache) == cache.isUpdating

\* line 14: what a call returns when a refresh is already in flight
GuardReturn(cache) == cache.data

\* line 15
SetUpdating(cache) == [cache EXCEPT !.isUpdating = TRUE]

\* mutant: the catch block forgets the cached snapshot
CatchBlockNoStale(cache, t) ==
    [timeseries |-> <<>>,
     totals |-> [requests |-> 0, pageviews |-> 0, bytes |-> 0, threats |-> 0,
                 uniques |-> 0],
     geographic |-> <<>>,
     httpStatus |-> <<>>,
     lastUpdated |-> ToISOString(t),
     refreshInterval |-> REFRESH_INTERVAL,
     error |-> ErrorMarker]

\* mutant: there is no finally block, the flag is left as it is
FinallyBlockMissing(cache) == cache

\* mutant: no catch block, an exception rejects the promise
SettleUncaught(completion, cache, t) ==
    IF completion.threw
    THEN [settled |-> "rejected", value |-> Null]
    ELSE [settled |-> "resolved", value |-> completion.value]

\* mutant: the time of the commit is stored, not the run's reference time
CommitAtCompletion(cache, data, now) ==
    [cache EXCEPT !.data = data, !.lastUpdated = Date(clock)]

\* mutant: the snapshot is stored, its timestamp is not
CommitDataOnly(cache, data, now) == [cache EXCEPT !.data = data]

\* lines 171-172: the snapshot and the Date object `now` are stored
Commit(cache, data, now) == [cache EXCEPT !.data = data, !.lastUpdated = Date(now)]

\* lines 176-193: the value the catch block returns
CatchBlock(cache, t) ==
    IF cache.data # Null THEN cache.data ELSE ErrorSnapshot(t)

\* lines 194-196
FinallyBlock(cache) == [cache EXCEPT !.isUpdating = FALSE]

\* lines 17, 176: how the promise of fetchAnalyticsData settles when the try
\* block completed with `completion` ([threw, value])
Settle(completion, cache, t) ==
    IF completion.threw
    THEN [settled |-> "resolved", value |-> CatchBlock(cache, t)]
    ELSE [settled |-> "resolved", value |-> completion.value]

\* what the caller does with the settled promise: GET /api/analytics sends it
\* (or a 500), the startup fetch and the timer only log a rejection
Respond(caller, outcome) ==
    IF caller = "request"
    THEN IF outcome.settled = "resolved"
         THEN [handler |-> "json", status |-> 200, body |-> outcome.value]
         ELSE [handler |-> "json", status |-> 500,
               body |-> [error |-> "Internal server error"]]
    ELSE IF outcome.settled = "resolved"
         THEN [handler |-> "none", status |-> 0, body |-> Null]
         ELSE [handler |-> "catch", status |-> 0, body |-> Null]

Threw == [threw |-> TRUE, value |-> Null]
Returned(v) == [threw |-> FALSE, value |-> v]

\* the frame of a call: its locals, and what is recorded about it for the
\* properties (the cache as it was at the call, kept until the call commits;
\* the queries it issued and how axios.get of the availability check
\* settled; whether calls came in while it was suspended; whether the call
\* that had settled last when its primary response arrived was a failed run)
NewFrame(caller, cache) ==
    [caller |-> caller, pc |-> "awaitPrimary", now |-> clock,
     timeseriesResponse |-> Null, geoResponse |-> Null, startTime |-> 0,
     guardHit |-> FALSE, primaryFailed |-> FALSE, geoFailed |-> FALSE,
     threw |-> FALSE, settled |-> "pending", ret |-> Null, reply |-> Null,
     issuedPrimary |-> 0, issuedGeo |-> 0, issuedAvail |-> 0, siteOutcome |-> Null,
     afterFailure |-> FALSE,
     cacheAtCall |-> [data |-> cache.data, lastUpdated |-> cache.lastUpdated],
     overlapped |-> FALSE, overlapPrimary |-> 0, overlapGeo |-> 0]

NoReturn == [pc |-> "none"]

\* the frame once its promise has settled and the caller has reacted; the
\* locals that no property reads are dropped
Finished(frame, outcome) ==
    [frame EXCEPT !.pc = "done", !.settled = outcome.settled, !.ret = outcome.value,
                  !.reply = Respond(frame.caller, outcome), !.startTime = 0]

\* the suspended calls without the i-th
Without(i) == SubSeq(calls, 1, i - 1) \o SubSeq(calls, i + 1, Len(calls))

\* mutant: a call that comes in restarts the suspended one
OverlapRestarts(frame, other) ==
    [frame EXCEPT !.overlapped = TRUE, !.pc = "awaitPrimary",
                  !.timeseriesResponse = Null, !.geoResponse = Null,
                  !.issuedPrimary = 1, !.issuedGeo = 0, !.issuedAvail = 0]

\* a suspended call records that another call came in, and the queries it issued
Overlap(frame, other) ==
    [frame EXCEPT !.overlapped = TRUE,
                  !.overlapPrimary = @ + other.issuedPrimary,
                  !.overlapGeo = @ + other.issuedGeo]

\* lines 13-71: the call up to its first await
Invoke(caller) ==
    /\ Len(calls) < MaxInFlight
    /\ LET frame == NewFrame(caller, analyticsCache)
       IN IF GuardHit(analyticsCache)
          THEN LET done == Finished([frame EXCEPT !.guardHit = TRUE],
                                    Settle(Returned(GuardReturn(analyticsCache)),
                                           analyticsCache, clock))
               IN /\ returned' = done
                  /\ calls' = [i \in 1..Len(calls) |-> Overlap(calls[i], done)]
                  /\ UNCHANGED analyticsCache
          ELSE /\ calls' = Append(calls, [frame EXCEPT !.issuedPrimary = 1])
               /\ analyticsCache' = SetUpdating(analyticsCache)
               /\ UNCHANGED returned
    /\ UNCHANGED <<clock, SITE_URL, dashboard, webhook>>

\* mutant: both queries are issued up front, before the primary one is awaited
IssueGeoTwice(frame, body) ==
    [frame EXCEPT !.pc = "awaitGeo", !.timeseriesResponse = body, !.issuedGeo = @ + 2]

\* mutant: a failed geographic query is not replaced by an empty response
ReceiveGeoUnhandled(frame, outcome) ==
    [frame EXCEPT !.geoFailed = (outcome = Null), !.geoResponse = outcome]

\* lines 71-75: the primary query succeeded; the geographic query is issued
IssueGeo(frame, body) ==
    [frame EXCEPT !.pc = "awaitGeo", !.timeseriesResponse = body, !.issuedGeo = 1]

\* lines 77-79: the geographic query succeeded with `outcome`, or failed (Null)
ReceiveGeo(frame, outcome) ==
    [frame EXCEPT !.geoFailed = (outcome = Null),
                  !.geoResponse = IF outcome = Null THEN GeoFallback ELSE outcome]

\* mutant: a run that fails leaves the finally block out
FailKeepsFlag(i, frame) ==
    /\ returned' = Finished(frame, Settle(Threw, analyticsCache, clock))
    /\ calls' = Without(i)
    /\ analyticsCache' = analyticsCache

\* mutant: the value the catch block returns is stored as the snapshot
FailStoresResult(i, frame) ==
    /\ returned' = Finished(frame, Settle(Threw, analyticsCache, clock))
    /\ calls' = Without(i)
    /\ analyticsCache' =
          FinallyBlock([analyticsCache EXCEPT !.data = CatchBlock(analyticsCache, clock)])

\* the try block of call i was left by an exception: catch, finally, settle
Fail(i, frame) ==
    /\ returned' = Finished(frame, Settle(Threw, analyticsCache, clock))
    /\ calls' = Without(i)
    /\ analyticsCache' = FinallyBlock(analyticsCache)

\* lines 154-175 and the finally block: build, commit, return
Complete(i, frame, siteStatus) ==
    \E data \in {ProcessedData(
                    Aggregated(frame.timeseriesResponse, frame.geoResponse),
                    siteStatus, frame.now)} :
       /\ returned' = Finished([frame EXCEPT !.cacheAtCall = Null],
                               Settle(Returned(data), analyticsCache, clock))
       /\ calls' = Without(i)
       /\ analyticsCache' = FinallyBlock(Commit(analyticsCache, data, frame.now))

----------------------------------------------------------------------------
(* The dashboard client (public/js/dashboard-class.js, public/js/init.js)  *)

\* the page before DOMContentLoaded: window.dashboard is undefined
\* (errorMessage is the text on display, "" while the element is hidden)
NotLoaded ==
    [constructed |-> FALSE, isLoading |-> FALSE, isFirstLoad |-> TRUE,
     fetches |-> <<>>, metrics |-> Null, errorMessage |-> "",
     refreshInterval |-> REFRESH_INTERVAL, lastCall |-> Null, settled |-> Null]

\* the browser could not reach the server: fetch() rejects
NetworkError == [handler |-> "none", status |-> 0, body |-> Null]

\* a 200 response whose body is not JSON: response.json() rejects
NotJson == [handler |-> "send", status |-> 200, body |-> Null]

\* the snapshots GET /api/analytics can send
ClientSnapshots ==
    { ProcessedData(Aggregated(b, GeoFallback), NoSiteUrl, 0) :
        b \in {x \in PrimaryBodies : ~PrimaryThrows(x)} }

\* how fetch('/api/analytics') can settle: with what the route sends (a
\* snapshot, the error snapshot, null, or a 500), or as above
ClientReplies ==
    { Respond("request", [settled |-> "resolved", value |-> v]) :
        v \in ClientSnapshots \cup {ErrorSnapshot(0), Null} }
    \cup { Respond("request", [settled |-> "rejected", value |-> Null]),
           NetworkError, NotJson }

\* mutant: fetchAnalytics without its isLoading test
IsLoadingTestMissing(d) == FALSE

\* line 297
IsLoadingTest(d) == d.isLoading

\* response.ok
ResponseOk(response) == response.status >= 200 /\ response.status <= 299

\* line 306: data.error is truthy (data is an object here)
ErrorField(data) == "error" \in DOMAIN data /\ data.error # ""

\* lines 320-328, 330-361: what updateDashboard renders
UpdateDashboard(d, data) ==
    [d EXCEPT !.metrics = [totals |-> data.totals, lastUpdated |-> data.lastUpdated],
              !.refreshInterval = data.refreshInterval]

\* lines 310-312: the catch block shows the error
CatchFetch(d) == [d EXCEPT !.errorMessage = "Failed to load data"]

\* lines 313-317: the finally block; the call i has ended
FinallyFetch(d, i, threw) ==
    [d EXCEPT !.isLoading = FALSE, !.isFirstLoad = FALSE,
              !.fetches = SubSeq(@, 1, i - 1) \o SubSeq(@, i + 1, Len(@)),
              !.settled = [d.fetches[i] EXCEPT !.threw = threw]]

\* lines 296-303: fetchAnalytics up to its first await
FetchAnalytics(source) ==
    /\ dashboard.constructed
    /\ Len(dashboard.fetches) < MaxFetches
    /\ dashboard' =
          IF IsLoadingTest(dashboard)
          THEN [dashboard EXCEPT !.lastCall = [source |-> source, sent |-> FALSE]]
          ELSE [dashboard EXCEPT
                  !.isLoading = TRUE,
                  !.errorMessage = "",
                  !.fetches = Append(@, [source |-> source, pc |-> "awaitFetch",
                                        response |-> Null, threw |-> FALSE]),
                  !.lastCall = [source |-> source, sent |-> TRUE]]
    /\ UNCHANGED <<analyticsCache, calls, returned, clock, listening, SITE_URL, webhook>>

\* init.js 2-4, lines 5-16 and 89: the page has loaded, the dashboard is
\* constructed and init() makes the first call
DOMContentLoaded ==
    /\ ~dashboard.constructed
    /\ dashboard' =
          [NotLoaded EXCEPT
              !.constructed = TRUE,
              !.isLoading = TRUE,
              !.fetches = <<[source |-> "init", pc |-> "awaitFetch",
                            response |-> Null, threw |-> FALSE]>>,
              !.lastCall = [source |-> "init", sent |-> TRUE]]
    /\ UNCHANGED <<analyticsCache, calls, returned, clock, listening, SITE_URL, webhook>>

\* line 522: a tick of the refresh timer
RefreshTimer == FetchAnalytics("timer")

\* lines 104-108: the page becomes visible again
VisibilityChange == FetchAnalytics("visibility")

\* init.js 7-11: the retry button (nothing happens before the page has loaded)
RetryButton == FetchAnalytics("retry")

\* lines 303-305: fetch() settles
FetchSettles ==
    \E i \in 1..Len(dashboard.fetches) :
        /\ dashboard.fetches[i].pc = "awaitFetch"
        /\ \E response \in ClientReplies :
             \E d \in {[dashboard EXCEPT !.fetches[i].response = response]} :
                dashboard' =
                   IF response = NetworkError \/ ~ResponseOk(response)
                   THEN FinallyFetch(CatchFetch(d), i, TRUE)
                   ELSE [d EXCEPT !.fetches[i].pc = "awaitJson"]
        /\ UNCHANGED <<analyticsCache, calls, returned, clock, listening, SITE_URL, webhook>>

\* lines 305-317: response.json() settles
JsonSettles ==
    \E i \in 1..Len(dashboard.fetches) :
        /\ dashboard.fetches[i].pc = "awaitJson"
        /\ \E response \in {dashboard.fetches[i].response} :
              dashboard' =
                 IF response.handler # "json" \/ response.body = Null
                 THEN FinallyFetch(CatchFetch(dashboard), i, TRUE)
                 ELSE IF ErrorField(response.body)
                 THEN FinallyFetch(CatchFetch(dashboard), i, TRUE)
                 ELSE FinallyFetch(UpdateDashboard(dashboard, response.body), i, FALSE)
        /\ UNCHANGED <<analyticsCache, calls, returned, clock, listening, SITE_URL, webhook>>

----------------------------------------------------------------------------
(* The webhook listener *)

\* the listener process has not been started
NotStarted ==
    [started |-> FALSE, exited |-> FALSE, WEBHOOK_SECRET |-> "",
     deployments |-> 0, last |-> Null]

\* process.env.GITHUB_WEBHOOK_SECRET || ''
Secrets == {"", "s3cret"}

\* the request bodies: text is what the HMAC is taken of, json whether
\* JSON.parse accepts it, object whether it parses to an object (not null),
\* ref the payload's ref, commits whether the last commit has the fields the
\* log lines read
HookBody(text, ref, commits) ==
    [text |-> text, json |-> TRUE, object |-> TRUE, ref |-> ref, commits |-> commits]

HookBodies ==
    { HookBody("push main", "refs/heads/main", TRUE),
      HookBody("push main, commit without id", "refs/heads/main", FALSE),
      HookBody("push dev", "refs/heads/dev", TRUE),
      [text |-> "null", json |-> TRUE, object |-> FALSE, ref |-> "", commits |-> TRUE],
      [text |-> "not json", json |-> FALSE, object |-> FALSE, ref |-> "",
       commits |-> TRUE] }

\* createHmac('sha256', key).update(payload).digest('hex'): a digest that
\* tells apart any two keys and any two payloads
Hmac(key, payload) == [key |-> key, msg |-> payload.text]

\* 'sha256=' + digest: a header value is [digest, len], len its length
ExpectedSignature(secret, payload) ==
    [digest |-> Hmac(secret, payload), len |-> SignatureLength]

\* the x-hub-signature-256 headers tried: absent (Null), empty, the right
\* one, one made with another key, one made of another payload, the right
\* one cut short, and the bare digest without its prefix
SignaturesFor(secret, payload) ==
    { Null,
      [digest |-> Hmac("", [text |-> ""]), len |-> 0],
      ExpectedSignature(secret, payload),
      ExpectedSignature("other key", payload),
      ExpectedSignature(secret, [text |-> "other payload"]),
      [digest |-> Hmac(secret, payload), len |-> SignatureLength - 1],
      [digest |-> Hmac(secret, payload), len |-> SignatureLength - 7] }

\* crypto.timingSafeEqual: a RangeError when the lengths differ
TimingSafeEqual(a, b) ==
    IF a.len # b.len THEN Threw ELSE Returned(a = b)

\* mutant: a request without signature passes the verification
VerifySignatureUnsignedOk(secret, payload, signature) ==
    IF secret = "" THEN Returned(TRUE)
    ELSE IF signature = Null \/ signature.len = 0 THEN Returned(TRUE)
    ELSE TimingSafeEqual(signature, ExpectedSignature(secret, payload))

\* server.js 175-201
VerifySignature(secret, payload, signature) ==
    IF secret = "" THEN Returned(TRUE)
    ELSE IF signature = Null \/ signature.len = 0 THEN Returned(FALSE)
    ELSE TimingSafeEqual(signature, ExpectedSignature(secret, payload))

HookResult(status, deployed) == [status |-> status, deployed |-> deployed]

\* server.js 244-325: what the handler answers and whether it calls
\* deployAnalytics; an exception inside the 'end' callback gives a 500
HandleRequest(secret, req) ==
    IF req.method # "POST" THEN HookResult(405, FALSE)
    ELSE IF req.url # "/webhook" THEN HookResult(404, FALSE)
    ELSE IF req.transport = "error" THEN HookResult(400, FALSE)
    ELSE LET verified == VerifySignature(secret, req.body, req.signature)
         IN IF verified.threw THEN HookResult(500, FALSE)
            ELSE IF ~verified.value THEN HookResult(401, FALSE)
            ELSE IF ~req.body.json THEN HookResult(500, FALSE)
            ELSE IF ~req.body.object THEN HookResult(500, FALSE)
            ELSE IF req.event = "push" /\ req.body.ref = "refs/heads/main"
            THEN IF req.body.commits THEN HookResult(200, TRUE)
                 ELSE HookResult(500, FALSE)
            ELSE HookResult(200, FALSE)

\* server.js 328-339: the second 'request' listener answers GET /health
\* after the first one has answered 405; its writeHead raises an exception
\* nothing catches, and the uncaughtException handler exits
SecondListenerThrows(req) == req.method = "GET" /\ req.url = "/health"

\* server.js 342: the listener starts, with the secret of its environment
HookListen ==
    /\ ~webhook.started
    /\ \E secret \in Secrets :
          webhook' = [NotStarted EXCEPT !.started = TRUE, !.WEBHOOK_SECRET = secret]
    /\ UNCHANGED <<analyticsCache, calls, returned, clock, listening, SITE_URL, dashboard>>

\* a request is handled
HookRequest ==
    /\ webhook.started /\ ~webhook.exited
    /\ webhook.deployments < MaxDeployments
    /\ \E method \in {"POST", "GET"}, url \in {"/webhook", "/health"},
          event \in {"push", "ping"}, transport \in {"end", "error"},
          body \in HookBodies :
          \E signature \in SignaturesFor(webhook.WEBHOOK_SECRET, body) :
            \E req \in {[method |-> method, url |-> url, event |-> event,
                          transport |-> transport, body |-> body,
                          signature |-> signature]} :
              \E result \in {HandleRequest(webhook.WEBHOOK_SECRET, req)} :
                 webhook' =
                    [webhook EXCEPT
                       !.deployments = IF result.deployed THEN @ + 1 ELSE @,
                       !.exited = SecondListenerThrows(req),
                       !.last = [request |-> req, status |-> result.status,
                                 deployed |-> result.deployed]]
    /\ UNCHANGED <<analyticsCache, calls, returned, clock, listening, SITE_URL, dashboard>>

----------------------------------------------------------------------------
(* Actions *)

Init ==
    /\ analyticsCache = [data |-> Null, lastUpdated |-> Null, isUpdating |-> FALSE]
    /\ calls = <<>>
    /\ returned = NoReturn
    /\ clock = 0
    /\ listening = FALSE
    /\ SITE_URL \in SiteUrls
    /\ dashboard = NotLoaded
    /\ webhook = NotStarted

\* server.js 95-106: the listen callback starts the initial fetch
Listen ==
    /\ ~listening
    /\ listening' = TRUE
    /\ Invoke("startup")

\* server.js 109-113: one tick of the refresh interval
TimerTick ==
    /\ Invoke("timer")
    /\ UNCHANGED listening

\* server.js 62-70: GET /api/analytics
GetAnalytics ==
    /\ listening
    /\ Invoke("request")
    /\ UNCHANGED listening

\* mutant: the health report always says that no refresh is running
HealthReportIdle(cache) ==
    [hasData |-> cache.data # Null,
     lastUpdated |-> cache.lastUpdated,
     isUpdating |-> FALSE]

\* server.js 53-57: the cache part of the health report
HealthReport(cache) ==
    [hasData |-> cache.data # Null,
     lastUpdated |-> cache.lastUpdated,
     isUpdating |-> cache.isUpdating]

\* server.js 47-60: GET /health
GetHealth ==
    /\ listening
    /\ returned' = [pc |-> "health", caller |-> "health",
                    reply |-> [handler |-> "json", status |-> 200,
                               body |-> [status |-> "healthy",
                                         timestamp |-> ToISOString(clock),
                                         cache |-> HealthReport(analyticsCache)]]]
    /\ UNCHANGED <<analyticsCache, calls, clock, listening, SITE_URL, dashboard, webhook>>

\* line 71: the primary query settles; on success the geographic query is issued
PrimaryReturns ==
    \E i \in 1..Len(calls) :
        /\ calls[i].pc = "awaitPrimary"
        /\ \/ Fail(i, [calls[i] EXCEPT !.primaryFailed = TRUE])
           \/ /\ \E body \in PrimaryBodies :
                     calls' = [calls EXCEPT ![i] = IssueGeo(@, body)]
              /\ UNCHANGED <<analyticsCache, returned>>
        /\ UNCHANGED <<clock, listening, SITE_URL, dashboard, webhook>>

\* lines 73-152: the geographic query settles, the records are aggregated and
\* the availability check is started (it returns at once without a URL)
GeoReturns ==
    \E i \in 1..Len(calls) :
        /\ calls[i].pc = "awaitGeo"
        /\ \E outcome \in {Null} \cup GeoBodies :
             \E frame \in {ReceiveGeo(calls[i], outcome)} :
                IF PrimaryThrows(frame.timeseriesResponse) \/ GeoThrows(frame.geoResponse)
                THEN Fail(i, [frame EXCEPT !.threw = TRUE])
                ELSE IF SITE_URL = ""
                THEN Complete(i, frame, NoSiteUrl)
                ELSE /\ calls' = [calls EXCEPT ![i] =
                            [frame EXCEPT !.pc = "awaitAvail", !.startTime = clock,
                                          !.issuedAvail = 1]]
                     /\ UNCHANGED <<analyticsCache, returned>>
        /\ UNCHANGED <<clock, listening, SITE_URL, dashboard, webhook>>

\* lines 152-175: the availability check settles and the snapshot is committed
AvailReturns ==
    \E i \in 1..Len(calls) :
        /\ calls[i].pc = "awaitAvail"
        /\ \E outcome \in AvailOutcomes :
             \E siteStatus \in {ClassifySite(outcome, calls[i].startTime, clock)} :
                Complete(i, [calls[i] EXCEPT !.siteOutcome = outcome], siteStatus)
        /\ UNCHANGED <<clock, listening, SITE_URL, dashboard, webhook>>

\* time passes
Tick ==
    /\ clock < MaxTime
    /\ clock' = clock + 1
    /\ UNCHANGED <<analyticsCache, calls, returned, listening, SITE_URL, dashboard, webhook>>

Next ==
    \/ Listen
    \/ TimerTick
    \/ GetAnalytics
    \/ PrimaryReturns
    \/ GeoReturns
    \/ AvailReturns
    \/ Tick

Spec == Init /\ [][Next]_vars

\* the serving layer with its health route
HealthNext ==
    \/ Next
    \/ GetHealth

HealthSpec == Init /\ [][HealthNext]_vars

----------------------------------------------------------------------------
(* One run of the pipeline, as started by the listen callback without a     *)
(* site URL, over every pair of upstream responses of the aggregation       *)
(* inputs: what the claims about the aggregation are checked on.            *)

AggInit == Init /\ SITE_URL = ""

\* line 71 with a response from AggPrimaryBodies
AggPrimaryReturns ==
    \E i \in 1..Len(calls) :
        /\ calls[i].pc = "awaitPrimary"
        /\ \E body \in AggPrimaryBodies :
              calls' = [calls EXCEPT ![i] = IssueGeo(@, body)]
        /\ UNCHANGED <<analyticsCache, returned, clock, listening, SITE_URL, dashboard, webhook>>

\* lines 73-175 with a response from AggGeoBodies, or a failed geographic query
AggGeoReturns ==
    \E i \in 1..Len(calls) :
        /\ calls[i].pc = "awaitGeo"
        /\ SITE_URL = ""
        /\ \E outcome \in {Null} \cup AggGeoBodies :
             \E frame \in {ReceiveGeo(calls[i], outcome)} :
                IF PrimaryThrows(frame.timeseriesResponse) \/ GeoThrows(frame.geoResponse)
                THEN Fail(i, [frame EXCEPT !.threw = TRUE])
                ELSE Complete(i, frame, NoSiteUrl)
        /\ UNCHANGED <<clock, listening, SITE_URL, dashboard, webhook>>

AggNext ==
    \/ Listen
    \/ AggPrimaryReturns
    \/ AggGeoReturns

AggSpec == AggInit /\ [][AggNext]_vars

----------------------------------------------------------------------------
(* One run of the pipeline, as started by the listen callback, over every  *)
(* way the availability check can end: what the claim about the check is   *)
(* checked on.                                                             *)

\* lines 152-175 with an outcome from SiteOutcomes
SiteAvailReturns ==
    \E i \in 1..Len(calls) :
        /\ calls[i].pc = "awaitAvail"
        /\ \E outcome \in SiteOutcomes :
             \E siteStatus \in {ClassifySite(outcome, calls[i].startTime, clock)} :
                Complete(i, [calls[i] EXCEPT !.siteOutcome = outcome], siteStatus)
        /\ UNCHANGED <<clock, listening, SITE_URL, dashboard, webhook>>

SiteNext ==
    \/ Listen
    \/ PrimaryReturns
    \/ GeoReturns
    \/ SiteAvailReturns
    \/ Tick

SiteSpec == Init /\ [][SiteNext]_vars

----------------------------------------------------------------------------
(* Runs of the pipeline without a site URL whose primary responses carry   *)
(* hourly records or none (no data, no zone, a zone without buckets): what *)
(* the claim about such responses is checked on.                           *)

NoRecordBodies ==
    { ZoneBody(<<HourBucket(1, 10, 0, 4, <<StatusEntry(200, 8), StatusEntry(404, 2)>>)>>),
      [data |-> Null],
      [data |-> [zones |-> <<>>]],
      ZoneBody(<<>>) }

\* line 71 with a response from NoRecordBodies
NoRecordPrimaryReturns ==
    \E i \in 1..Len(calls) :
        /\ calls[i].pc = "awaitPrimary"
        /\ \E body \in NoRecordBodies :
              calls' = [calls EXCEPT ![i] = IssueGeo(@, body)]
        /\ UNCHANGED <<analyticsCache, returned, clock, listening, SITE_URL, dashboard, webhook>>

NoRecordNext ==
    \/ Listen
    \/ TimerTick
    \/ NoRecordPrimaryReturns
    \/ GeoReturns
    \/ Tick

NoRecordSpec == AggInit /\ [][NoRecordNext]_vars

----------------------------------------------------------------------------
(* Runs of the pipeline started by the listen callback and the interval    *)
(* timer, without a site URL, with the primary query failing or succeeding *)
(* each time: what the claim about recovery after failures is checked on.  *)

\* line 71: as PrimaryReturns; the frame records whether the call that
\* settled last was a run that failed
RecoverPrimaryReturns ==
    \E i \in 1..Len(calls) :
        /\ calls[i].pc = "awaitPrimary"
        /\ \/ Fail(i, [calls[i] EXCEPT !.primaryFailed = TRUE])
           \/ /\ \E body \in PrimaryBodies :
                     calls' = [calls EXCEPT ![i] =
                        [IssueGeo(@, body) EXCEPT !.afterFailure =
                            /\ returned.pc = "done"
                            /\ ~returned.guardHit
                            /\ (returned.primaryFailed \/ returned.threw)]]
              /\ UNCHANGED <<analyticsCache, returned>>
        /\ UNCHANGED <<clock, listening, SITE_URL, dashboard, webhook>>

RecoverNext ==
    \/ Listen
    \/ TimerTick
    \/ RecoverPrimaryReturns
    \/ GeoReturns
    \/ Tick

\* the primary query returns records that can be aggregated
PrimarySucceeds ==
    /\ RecoverPrimaryReturns
    /\ \E i \in 1..Len(calls') :
          calls'[i].pc = "awaitGeo" /\ ~PrimaryThrows(calls'[i].timeseriesResponse)

\* the run gets past the secondary query and the aggregation
RunSucceeds ==
    /\ GeoReturns
    /\ Len(calls') < Len(calls)
    /\ ~returned'.threw

\* the timer keeps firing (setInterval, server.js 109-113), every upstream
\* call settles, and the upstream does not fail for ever: a primary query
\* that is issued again and again succeeds at some time, and so does a run
\* that gets to the secondary query again and again
RecoverSpec ==
    /\ AggInit /\ [][RecoverNext]_vars
    /\ WF_vars(TimerTick)
    /\ WF_vars(RecoverPrimaryReturns) /\ WF_vars(GeoReturns)
    /\ SF_vars(PrimarySucceeds) /\ SF_vars(RunSucceeds)

----------------------------------------------------------------------------
(* A browser page with the dashboard, on its own *)

ClientNext ==
    \/ DOMContentLoaded
    \/ RefreshTimer
    \/ VisibilityChange
    \/ RetryButton
    \/ FetchSettles
    \/ JsonSettles

ClientSpec == Init /\ [][ClientNext]_vars

----------------------------------------------------------------------------
(* The webhook listener, on its own *)

HookNext ==
    \/ HookListen
    \/ HookRequest

HookSpec == Init /\ [][HookNext]_vars

\* every upstream call eventually returns or fails (axios timeouts bound them)
FairSpec ==
    Spec /\ WF_vars(PrimaryReturns) /\ WF_vars(GeoReturns) /\ WF_vars(AvailReturns)

----------------------------------------------------------------------------
(* Properties *)

Settled == returned.pc = "done"

\* the last call to settle ran the pipeline (it passed the single-flight test)
RanPipeline == Settled /\ ~returned.guardHit

\* a step in which fetchAnalyticsData is called: a call is suspended that was
\* not, or the state changes although no suspended call moves and no time passes
CallStep ==
    \/ Len(calls') > Len(calls)
    \/ /\ Len(calls') = Len(calls)
       /\ clock' = clock
       /\ \A i \in 1..Len(calls) : calls'[i].pc = calls[i].pc

\* C1: a call made while isUpdating is true settles in the same step with the
\* current analyticsCache.data; it issues no query, suspends on nothing, and
\* leaves the cache and the queries of the call in flight as they were,
\* whoever the caller is.
C1_GuardReturnsCurrent ==
    [][(CallStep /\ analyticsCache.isUpdating) =>
          /\ returned'.pc = "done"
          /\ returned'.guardHit
          /\ returned'.settled = "resolved"
          /\ returned'.ret = analyticsCache.data
          /\ returned'.issuedPrimary = 0
          /\ returned'.issuedGeo = 0
          /\ returned'.issuedAvail = 0
          /\ analyticsCache' = analyticsCache
          /\ Len(calls') = Len(calls)
          /\ \A i \in 1..Len(calls) :
                /\ calls'[i].pc = calls[i].pc
                /\ calls'[i].issuedPrimary = calls[i].issuedPrimary
                /\ calls'[i].issuedGeo = calls[i].issuedGeo
                /\ calls'[i].issuedAvail = calls[i].issuedAvail]_vars

C1_Witness ==
    /\ Settled
    /\ returned.guardHit
    /\ returned.caller = "request"
    /\ returned.ret # Null
    /\ analyticsCache.isUpdating

C3_Original ==
    [][(Len(calls) = 1 /\ calls[1].overlapped /\ Len(calls') = 0) =>
          returned'.ret = returned.ret]_vars

\* C3 (amended): a call that comes in while a pipeline call is in flight is given
\* what the cache held when that pipeline call started (the snapshot committed
\* before it, or nothing), and issues no query; the pipeline call returns the
\* result of its own execution: the snapshot it commits, or on failure the
\* snapshot cached before it, or the error snapshot when none was.
C3_OverlapReturnsPrevious ==
    /\ (Settled /\ returned.guardHit /\ Len(calls) = 1) =>
          /\ returned.ret = calls[1].cacheAtCall.data
          /\ returned.issuedPrimary + returned.issuedGeo + returned.issuedAvail = 0
    /\ (RanPipeline /\ ~returned.primaryFailed /\ ~returned.threw) =>
          /\ returned.ret = analyticsCache.data
          /\ "lastUpdated" \in DOMAIN returned.ret
          /\ returned.ret.lastUpdated = ToISOString(returned.now)
    /\ (RanPipeline /\ (returned.primaryFailed \/ returned.threw)) =>
          \/ returned.cacheAtCall.data # Null /\ returned.ret = returned.cacheAtCall.data
          \/ /\ returned.cacheAtCall.data = Null
             /\ "error" \in DOMAIN returned.ret

C3_Witness ==
    /\ Settled
    /\ returned.guardHit
    /\ Len(calls) = 1
    /\ calls[1].cacheAtCall.data # Null
    /\ returned.ret = calls[1].cacheAtCall.data

\* C4: under FairSpec (every upstream call eventually settles), isUpdating is
\* true exactly while a pipeline execution is in flight, and whenever it is true
\* it is eventually false again, whichever way the execution ends.
C4_FlagNeverStuck ==
    /\ [](analyticsCache.isUpdating <=> Len(calls) > 0)
    /\ (analyticsCache.isUpdating ~> ~analyticsCache.isUpdating)

C4_Witness ==
    /\ RanPipeline
    /\ returned.threw
    /\ returned.cacheAtCall.data = Null
    /\ ~analyticsCache.isUpdating

\* C5: a pipeline call whose primary query failed while a snapshot S was cached
\* resolves with S, and the cache still holds S with the lastUpdated it had
\* when the call was made.
C5_StaleServe ==
    (RanPipeline /\ returned.primaryFailed /\ returned.cacheAtCall.data # Null) =>
        /\ returned.settled = "resolved"
        /\ returned.ret = returned.cacheAtCall.data
        /\ analyticsCache.data = returned.cacheAtCall.data
        /\ analyticsCache.lastUpdated = returned.cacheAtCall.lastUpdated

C5_Witness ==
    /\ RanPipeline
    /\ returned.primaryFailed
    /\ returned.cacheAtCall.data # Null
    /\ returned.cacheAtCall.lastUpdated.time < clock

\* C6: a pipeline call whose primary query failed while nothing was cached
\* resolves with a zero-valued snapshot: empty time series, every total 0, empty
\* country rollup, the configured refreshInterval and a non-empty error marker.
C6_ZeroSnapshot ==
    (RanPipeline /\ returned.primaryFailed /\ returned.cacheAtCall.data = Null) =>
        /\ returned.settled = "resolved"
        /\ {"timeseries", "totals", "geographic", "refreshInterval", "error"}
              \subseteq DOMAIN returned.ret
        /\ returned.ret.timeseries = <<>>
        /\ \A f \in DOMAIN returned.ret.totals : returned.ret.totals[f] = 0
        /\ returned.ret.geographic = <<>>
        /\ returned.ret.refreshInterval = REFRESH_INTERVAL
        /\ returned.ret.error # ""

C6_Witness ==
    /\ RanPipeline
    /\ returned.primaryFailed
    /\ returned.cacheAtCall.data = Null
    /\ returned.caller = "startup"

\* the records of the primary response can be aggregated
PrimaryUsable(frame) ==
    /\ ~frame.primaryFailed
    /\ frame.timeseriesResponse # Null
    /\ ~PrimaryThrows(frame.timeseriesResponse)

\* C7: when the secondary query fails and the primary query succeeded with
\* usable records, the call commits a snapshot whose country rollup is empty
\* and whose totals, time series and status breakdown are those of the same
\* run with any successful secondary response; a run whose secondary query
\* succeeded has the rollup of that response, whatever happened before.
C7_GeoFailureDegrades ==
    /\ (RanPipeline /\ PrimaryUsable(returned) /\ returned.geoFailed) =>
          /\ ~returned.threw
          /\ returned.settled = "resolved"
          /\ analyticsCache.data = returned.ret
          /\ {"geographic", "totals", "timeseries", "httpStatus", "siteStatus"}
                \subseteq DOMAIN returned.ret
          /\ "error" \notin DOMAIN returned.ret
          /\ returned.ret.geographic = <<>>
          /\ \A g \in {b \in GeoBodies : ~GeoThrows(b)} :
                LET full == Aggregate(returned.timeseriesResponse, g)
                IN /\ returned.ret.totals = full.totals
                   /\ returned.ret.timeseries = full.timeseries
                   /\ returned.ret.httpStatus = full.httpStatus
                   /\ returned.ret.cache = full.cache
    /\ (RanPipeline /\ PrimaryUsable(returned) /\ ~returned.geoFailed
          /\ ~returned.threw) =>
          /\ returned.ret.geographic = Geographic(GroupsOf(returned.geoResponse))
          /\ returned.ret.geographic # <<>>

C7_Witness ==
    /\ RanPipeline
    /\ PrimaryUsable(returned)
    /\ returned.geoFailed
    /\ returned.ret.timeseries # <<>>
    /\ returned.ret.geographic = <<>>
    /\ analyticsCache.data = returned.ret

C9_NeverRejects ==
    Settled =>
        /\ returned.settled = "resolved"
        /\ returned.reply.status # 500
        /\ returned.reply.handler # "catch"

C9_Witness ==
    /\ RanPipeline
    /\ returned.threw
    /\ ~returned.primaryFailed
    /\ returned.settled = "resolved"

\* C10 as stated: every GET /api/analytics is answered with status 200 and a
\* snapshot that carries refreshInterval, never with an absent payload.
C10_Original ==
    (Settled /\ returned.caller = "request") =>
        /\ returned.reply.status = 200
        /\ returned.reply.body # Null
        /\ "refreshInterval" \in DOMAIN returned.reply.body

\* C11 as stated: a request to the read endpoint never waits on upstream I/O
\* and never issues an upstream query; only the startup fetch and the timer do.
C11_Original ==
    /\ \A i \in 1..Len(calls) : calls[i].caller # "request"
    /\ (Settled /\ returned.caller = "request") =>
          returned.issuedPrimary + returned.issuedGeo + returned.issuedAvail = 0

----------------------------------------------------------------------------
(* Properties of the aggregation, on the snapshot a run has committed *)

\* the last call to settle built a snapshot and committed it
Committed ==
    /\ RanPipeline
    /\ ~returned.primaryFailed
    /\ ~returned.threw
    /\ analyticsCache.data = returned.ret

\* the raw hourly buckets of the primary and of the secondary response
RawPrimary == GroupsOf(returned.timeseriesResponse)
RawGeo == GroupsOf(returned.geoResponse)

\* n is x * 0.8 rounded to the nearest integer (4x/5 is never half-way)
IsRound08(n, x) == 10 * n - 8 * x \in -4..4

\* C12: in a committed snapshot every summed field of totals, pageviews
\* included, is the sum of that field over the points of the time series;
\* with no points every total is 0.
C12_TotalsAreSums ==
    Committed =>
        LET ts == returned.ret.timeseries
            totals == returned.ret.totals
        IN /\ DOMAIN totals = {"requests", "pageviews", "bytes", "threats", "uniques",
                                "cachedRequests", "cachedBytes"}
           /\ \A f \in DOMAIN totals :
                 totals[f] = SumSeq([i \in 1..Len(ts) |-> ts[i][f]])
           /\ (Len(ts) = 0) => \A f \in DOMAIN totals : totals[f] = 0

C12_Witness ==
    /\ Committed
    /\ Len(returned.ret.timeseries) = 2
    /\ \A i \in 1..Len(RawPrimary) : OrZero(RawPrimary[i].sum.pageViews) = 0
    /\ returned.ret.totals.pageviews > 0
    /\ returned.ret.totals.requests > returned.ret.totals.pageviews

\* C13: when the window is non-empty and every bucket reports 0 page views,
\* every point has round(requests * 0.8) page views and totals.pageviews is
\* their sum (10 and 20 requests give 8 and 16, total 24); when one bucket
\* reports page views, every point keeps the reported value, the zero ones
\* too, and totals.pageviews is the reported sum (0 and 5 give 5).
C13_AllOrNothing ==
    Committed =>
        LET ts == returned.ret.timeseries
            totals == returned.ret.totals
            n == Len(RawPrimary)
            req(i) == OrZero(RawPrimary[i].sum.requests)
            pv(i) == OrZero(RawPrimary[i].sum.pageViews)
            allZero == n > 0 /\ \A i \in 1..n : pv(i) = 0
        IN /\ Len(ts) = n
           /\ allZero =>
                 /\ \A i \in 1..n : IsRound08(ts[i].pageviews, req(i))
                 /\ totals.pageviews = SumSeq([i \in 1..n |-> ts[i].pageviews])
           /\ ~allZero =>
                 /\ \A i \in 1..n : ts[i].pageviews = pv(i)
                 /\ totals.pageviews = SumSeq([i \in 1..n |-> pv(i)])
           /\ (n = 2 /\ req(1) = 10 /\ req(2) = 20 /\ pv(1) = 0 /\ pv(2) = 0) =>
                 /\ ts[1].pageviews = 8
                 /\ ts[2].pageviews = 16
                 /\ totals.pageviews = 24
           /\ (n = 2 /\ req(1) = 10 /\ req(2) = 20 /\ pv(1) = 0 /\ pv(2) = 5) =>
                 /\ ts[1].pageviews = 0
                 /\ ts[2].pageviews = 5
                 /\ totals.pageviews = 5

C13_Witness ==
    /\ Committed
    /\ Len(RawPrimary) = 2
    /\ OrZero(RawPrimary[1].sum.requests) = 10
    /\ OrZero(RawPrimary[1].sum.pageViews) = 0
    /\ OrZero(RawPrimary[2].sum.requests) = 20
    /\ OrZero(RawPrimary[2].sum.pageViews) = 5
    /\ returned.ret.totals.pageviews = 5

\* the status histogram of the i-th raw bucket of the primary response
RawStatusMap(i) ==
    IF "responseStatusMap" \in DOMAIN RawPrimary[i].sum
    THEN RawPrimary[i].sum.responseStatusMap ELSE <<>>

\* the status code of a histogram entry: the edge status, else the origin's
RawCode(m) ==
    IF m.edgeResponseStatus \notin {Undefined, 0}
    THEN m.edgeResponseStatus ELSE m.httpStatusCode

\* the request counts of the raw histogram entries whose code is in [lo, hi)
RawStatusSum(lo, hi) ==
    SumSeq([i \in 1..Len(RawPrimary) |->
              SumSeq([j \in 1..Len(RawStatusMap(i)) |->
                        IF RawCode(RawStatusMap(i)[j]) \in lo..(hi - 1)
                        THEN OrZero(RawStatusMap(i)[j].requests) ELSE 0])])

\* C14: the breakdown of a committed snapshot has exactly the buckets 2xx,
\* 3xx, 4xx and 5xx, each the sum of the request counts of the histogram
\* entries of the primary window with a code in [200,300), [300,400),
\* [400,500), [500,600); an entry with another code, or none, is in no bucket.
C14_StatusBuckets ==
    Committed =>
        LET h == returned.ret.httpStatus
        IN /\ DOMAIN h = {"s2xx", "s3xx", "s4xx", "s5xx"}
           /\ h.s2xx = RawStatusSum(200, 300)
           /\ h.s3xx = RawStatusSum(300, 400)
           /\ h.s4xx = RawStatusSum(400, 500)
           /\ h.s5xx = RawStatusSum(500, 600)
           /\ h.s2xx + h.s3xx + h.s4xx + h.s5xx = RawStatusSum(200, 600)

C14_Witness ==
    /\ Committed
    /\ \A f \in {"s2xx", "s3xx", "s4xx", "s5xx"} : returned.ret.httpStatus[f] > 0
    /\ \E i \in 1..Len(RawPrimary) : \E j \in 1..Len(RawStatusMap(i)) :
          /\ RawCode(RawStatusMap(i)[j]) >= 600
          /\ RawStatusMap(i)[j].requests > 0

\* C15 as stated: in every committed snapshot the four buckets of the
\* breakdown add up to at most totals.requests.
C15_Original ==
    Committed =>
        LET h == returned.ret.httpStatus
        IN h.s2xx + h.s3xx + h.s4xx + h.s5xx <= returned.ret.totals.requests

\* the names of the countries of the secondary window
RawCountryMap(i) ==
    IF "countryMap" \in DOMAIN RawGeo[i].sum THEN RawGeo[i].sum.countryMap ELSE <<>>

RawCountries ==
    UNION {{RawCountryMap(i)[j].clientCountryName : j \in 1..Len(RawCountryMap(i))} :
             i \in 1..Len(RawGeo)}

\* the requests of country c summed over every bucket of the secondary window
RawCountrySum(c) ==
    SumSeq([i \in 1..Len(RawGeo) |->
              SumSeq([j \in 1..Len(RawCountryMap(i)) |->
                        IF RawCountryMap(i)[j].clientCountryName = c
                        THEN OrZero(RawCountryMap(i)[j].requests) ELSE 0])])

\* where country c is met first when the window is scanned bucket by bucket
FirstSeen(c) ==
    LET at == UNION {{<<i, j>> : j \in {k \in 1..Len(RawCountryMap(i)) :
                                            RawCountryMap(i)[k].clientCountryName = c}} :
                       i \in 1..Len(RawGeo)}
        first == CHOOSE p \in at :
                    \A q \in at : p[1] < q[1] \/ (p[1] = q[1] /\ p[2] <= q[2])
    IN 100 * first[1] + first[2]

\* the countries of the rollup, in its order
RollupCountries ==
    [i \in 1..Len(returned.ret.geographic) |-> returned.ret.geographic[i].country]

\* C16: the rollup of a committed snapshot is in non-increasing order of
\* requests, has min(10, number of distinct countries) entries for distinct
\* countries of the secondary window, and no country left out has more
\* requests than one that is in; sums US 100, DE 50, FR 200 give FR, US, DE.
C16_RollupSortedTop10 ==
    Committed =>
        LET geo == returned.ret.geographic
            n == Cardinality(RawCountries)
        IN /\ \A i \in 1..(Len(geo) - 1) : geo[i].requests >= geo[i + 1].requests
           /\ Len(geo) <= 10
           /\ Len(geo) = (IF n < 10 THEN n ELSE 10)
           /\ \A i \in 1..Len(geo) :
                 /\ geo[i].country \in RawCountries
                 /\ \A j \in 1..Len(geo) : geo[i].country = geo[j].country => i = j
           /\ \A c \in RawCountries :
                 (\A i \in 1..Len(geo) : geo[i].country # c) =>
                    \A i \in 1..Len(geo) : geo[i].requests >= RawCountrySum(c)
           /\ (/\ RawCountries = {"US", "DE", "FR"}
               /\ RawCountrySum("US") = 100
               /\ RawCountrySum("DE") = 50
               /\ RawCountrySum("FR") = 200) => RollupCountries = <<"FR", "US", "DE">>

C16_Witness ==
    /\ Committed
    /\ Cardinality(RawCountries) > 10
    /\ Len(returned.ret.geographic) = 10
    /\ returned.ret.geographic[1].requests > returned.ret.geographic[10].requests

\* C17: two countries of the rollup with equal requests are in the order in
\* which they were first met in the secondary window, and a country left out
\* with as many requests as one that is in was first met after it.
C17_TiesByFirstSeen ==
    Committed =>
        LET geo == returned.ret.geographic
        IN /\ \A i, j \in 1..Len(geo) :
                 (i < j /\ geo[i].requests = geo[j].requests) =>
                    FirstSeen(geo[i].country) < FirstSeen(geo[j].country)
           /\ \A c \in RawCountries :
                 (\A i \in 1..Len(geo) : geo[i].country # c) =>
                    \A i \in 1..Len(geo) :
                       geo[i].requests = RawCountrySum(c) =>
                          FirstSeen(geo[i].country) < FirstSeen(c)

C17_Witness ==
    /\ Committed
    /\ Len(returned.ret.geographic) = 10
    /\ returned.ret.geographic[9].requests = returned.ret.geographic[10].requests
    /\ \E c \in RawCountries :
          /\ \A i \in 1..10 : returned.ret.geographic[i].country # c
          /\ RawCountrySum(c) = returned.ret.geographic[10].requests

\* C18: every entry of the rollup has the requests of its country summed over
\* the whole secondary window and round(requests * 0.8) page views; the
\* rollup is the same whatever the primary response of the run.
C18_RollupSums ==
    Committed =>
        LET geo == returned.ret.geographic
        IN /\ \A i \in 1..Len(geo) :
                 /\ geo[i].requests = RawCountrySum(geo[i].country)
                 /\ IsRound08(geo[i].pageviews, geo[i].requests)
           /\ \A p \in {b \in PrimaryBodies : ~PrimaryThrows(b)} :
                 Aggregate(p, returned.geoResponse).geographic = geo

C18_Witness ==
    /\ Committed
    /\ Len(RawGeo) = 2
    /\ Len(RawPrimary) > 0
    /\ \E i \in 1..Len(returned.ret.geographic) :
          /\ returned.ret.geographic[i].country = "DE"
          /\ returned.ret.geographic[i].requests = 100
          /\ returned.ret.geographic[i].pageviews = 80

\* C19: with totals.requests = 0 the cache ratio and both cached estimates are
\* 0 whatever cachedRequests is; with totals.requests > 0 the ratio is
\* cachedRequests / requests.
C19_CacheRatio ==
    Committed =>
        LET totals == returned.ret.totals
            cache == returned.ret.cache
        IN /\ cache.cacheRatio.den > 0
           /\ (totals.requests = 0) =>
                 /\ cache.cacheRatio.num = 0
                 /\ cache.estCachedPageviews = 0
                 /\ cache.estCachedUniques = 0
           /\ (totals.requests > 0) =>
                 cache.cacheRatio.num * totals.requests
                    = totals.cachedRequests * cache.cacheRatio.den

C19_Witness ==
    /\ Committed
    /\ returned.ret.totals.requests = 0
    /\ returned.ret.totals.cachedRequests > 0
    /\ returned.ret.totals.uniques > 0
    /\ returned.ret.cache.cacheRatio.num = 0

\* the i-th point has the counts of the i-th raw bucket, absent ones as 0
CopiedFrom(pt, g) ==
    /\ pt.datetime = g.dimensions.datetime
    /\ pt.requests = OrZero(g.sum.requests)
    /\ pt.bytes = OrZero(g.sum.bytes)
    /\ pt.threats = OrZero(g.sum.threats)
    /\ pt.uniques = OrZero(g.uniq.uniques)
    /\ pt.cachedRequests = OrZero(g.sum.cachedRequests)
    /\ pt.cachedBytes = OrZero(g.sum.cachedBytes)

\* C20 as stated: one point per raw bucket, in order, every numeric field
\* copied from the bucket.
C20_Original ==
    Committed =>
        LET ts == returned.ret.timeseries
        IN /\ Len(ts) = Len(RawPrimary)
           /\ \A i \in 1..Len(ts) :
                 /\ CopiedFrom(ts[i], RawPrimary[i])
                 /\ ts[i].pageviews = OrZero(RawPrimary[i].sum.pageViews)

\* C20 (amended): one point per raw bucket, in order, every numeric field
\* copied from the bucket except pageviews, which is copied unless every
\* bucket reports 0 page views and is round(requests * 0.8) then.
C20_OnePointPerBucket ==
    Committed =>
        LET ts == returned.ret.timeseries
            allZero == \A i \in 1..Len(RawPrimary) :
                          OrZero(RawPrimary[i].sum.pageViews) = 0
        IN /\ Len(ts) = Len(RawPrimary)
           /\ \A i \in 1..Len(ts) :
                 /\ CopiedFrom(ts[i], RawPrimary[i])
                 /\ ts[i].pageviews =
                       (IF allZero THEN Round08(ts[i].requests)
                        ELSE OrZero(RawPrimary[i].sum.pageViews))

C20_Witness ==
    /\ Committed
    /\ Len(returned.ret.timeseries) = 2
    /\ returned.ret.timeseries[1].requests = 0
    /\ returned.ret.timeseries[2].requests = 20
    /\ returned.ret.timeseries[2].pageviews = 5
    /\ returned.ret.timeseries[1].threats = 0

----------------------------------------------------------------------------
(* Properties of the availability check *)

\* the status record checkSiteAvailability returns for the way axios.get
\* settled, as availability.js 16-32 spell it out (times aside)
SiteStatusFits(st, o) ==
    /\ "status" \in DOMAIN st
    /\ st.status \in {"online", "offline", "error"}
    /\ (o.code = "" /\ o.status < 500) =>
          /\ st.status = "online"
          /\ st.statusCode = o.status
          /\ st.responseTime >= 0
    /\ o.code = "ENOTFOUND" =>
          st = [status |-> "offline", message |-> Message("DNS resolution failed", 0, 0)]
    /\ o.code = "ECONNREFUSED" =>
          st = [status |-> "offline", message |-> Message("Connection refused", 0, 0)]
    /\ o.code = "TIMEOUT" =>
          st = [status |-> "offline", message |-> Message("Request timeout", 0, 0)]
    /\ o.status >= 500 => (st.status = "error" /\ st.statusCode = o.status)
    /\ (o.status = 0 /\ o.code \notin {"ENOTFOUND", "ECONNREFUSED", "TIMEOUT"}) =>
          st = [status |-> "offline", message |-> Message(o.code, 0, 0)]

\* C21: the availability check never makes a run fail.  A run that got past
\* the aggregation (its primary query succeeded and no record raised an
\* exception) resolves and commits a snapshot, whatever the outcome of the
\* check; the snapshot's siteStatus is the record the check returns for that
\* outcome, with a status among online, offline, error and unknown; without
\* a site URL no request is made and the record is {unknown, "No site URL
\* configured"}.
C21_AvailabilityNeverFails ==
    (RanPipeline /\ ~returned.primaryFailed /\ ~returned.threw) =>
        /\ returned.settled = "resolved"
        /\ returned.ret # Null
        /\ "error" \notin DOMAIN returned.ret
        /\ analyticsCache.data = returned.ret
        /\ ~analyticsCache.isUpdating
        /\ IF SITE_URL = ""
           THEN /\ returned.issuedAvail = 0
                /\ returned.ret.siteStatus =
                      [status |-> "unknown",
                       message |-> Message("No site URL configured", 0, 0)]
           ELSE /\ returned.issuedAvail = 1
                /\ returned.siteOutcome \in SiteOutcomes
                /\ SiteStatusFits(returned.ret.siteStatus, returned.siteOutcome)

\* a run committed after its availability check was rejected without a
\* response, by an error code the catch block has no branch for
C21_Witness ==
    /\ Committed
    /\ SITE_URL # ""
    /\ returned.siteOutcome = [code |-> "ECONNABORTED", status |-> 0]
    /\ returned.ret.siteStatus.status = "offline"

----------------------------------------------------------------------------
(* Properties of the serving layer *)

\* a step in which GET /health is answered
HealthStep == returned' # returned /\ returned'.pc = "health"

\* C22: the cache is written by fetchAnalyticsData only.  GET /health
\* reports hasData (true iff a snapshot is cached), lastUpdated and
\* isUpdating as they are in the cache when the request is handled, starts
\* no call of the pipeline, issues no query and leaves the cache as it is;
\* and in every step that changes a field of the cache a call of the
\* pipeline starts or ends.
C22_HealthReadsOnly ==
    [][ /\ HealthStep =>
            /\ returned'.reply.handler = "json"
            /\ returned'.reply.body.cache.hasData = (analyticsCache.data # Null)
            /\ returned'.reply.body.cache.lastUpdated = analyticsCache.lastUpdated
            /\ returned'.reply.body.cache.isUpdating = analyticsCache.isUpdating
            /\ analyticsCache' = analyticsCache
            /\ calls' = calls
        /\ analyticsCache' # analyticsCache => Len(calls') # Len(calls)
      ]_vars

\* the health route answered while a refresh was running over a cached
\* snapshot, and said so
C22_Witness ==
    /\ returned.pc = "health"
    /\ returned.reply.body.cache.hasData
    /\ returned.reply.body.cache.isUpdating
    /\ returned.reply.body.cache.lastUpdated = Date(0)
    /\ analyticsCache.isUpdating
    /\ Len(calls) = 1

----------------------------------------------------------------------------
(* Properties of the cache *)

\* a step in which call i of the pipeline ends
EndStep == Len(calls') < Len(calls)

\* C23: the snapshot and its timestamp are swapped together.  In every
\* state data is absent iff lastUpdated is absent, and when present the
\* snapshot's own lastUpdated is the same instant as the cache's; a step
\* changes data iff it changes the cache's lastUpdated or stores a snapshot
\* of the same instant, and then a call of the pipeline ends having built
\* the new snapshot; a stored snapshot is otherwise left as it is.
C23_AtomicSwap ==
    /\ [](/\ (analyticsCache.data = Null) <=> (analyticsCache.lastUpdated = Null)
          /\ analyticsCache.data # Null =>
                /\ "lastUpdated" \in DOMAIN analyticsCache.data
                /\ analyticsCache.lastUpdated # Null
                /\ analyticsCache.data.lastUpdated =
                      ToISOString(analyticsCache.lastUpdated.time))
    /\ [][ /\ analyticsCache'.data # analyticsCache.data =>
                /\ EndStep
                /\ returned'.ret = analyticsCache'.data
                /\ ~returned'.guardHit /\ ~returned'.primaryFailed /\ ~returned'.threw
          /\ analyticsCache'.lastUpdated # analyticsCache.lastUpdated =>
                analyticsCache'.data # analyticsCache.data
        ]_vars

\* a second snapshot has replaced the first, and carries the later instant
C23_Witness ==
    /\ Committed
    /\ analyticsCache.lastUpdated = Date(MaxTime)
    /\ analyticsCache.data.lastUpdated = ToISOString(MaxTime)
    /\ returned.caller = "timer"

\* the suspended call is where it was: same position, same reference time,
\* same responses received and queries issued
Undisturbed(before, after) ==
    /\ after.pc = before.pc
    /\ after.now = before.now
    /\ after.caller = before.caller
    /\ after.timeseriesResponse = before.timeseriesResponse
    /\ after.geoResponse = before.geoResponse
    /\ after.issuedPrimary = before.issuedPrimary
    /\ after.issuedGeo = before.issuedGeo
    /\ after.issuedAvail = before.issuedAvail

\* C24: a run in flight is neither cancelled nor pre-empted.  A call that
\* comes in while a run is suspended settles at once without a query and
\* leaves the run where it was, and no run is started for it later (when the
\* run ends nothing is in flight); a run that calls came in on ends like any
\* other, committing the snapshot built from its own responses and reference
\* time when its records could be aggregated; the first call after the run
\* has ended starts a new run; and with every upstream call settling, a run
\* that a call came in on does end.
C24_NoPreemption ==
    /\ [][
          /\ (CallStep /\ Len(calls) > 0) =>
                /\ Len(calls') = Len(calls)
                /\ \A i \in 1..Len(calls) :
                      Undisturbed(calls[i], calls'[i]) /\ calls'[i].overlapped
                /\ returned'.pc = "done" /\ returned'.guardHit
                /\ returned'.issuedPrimary = 0 /\ returned'.issuedGeo = 0
                /\ analyticsCache' = analyticsCache
          /\ EndStep =>
                /\ calls' = <<>>
                /\ ~analyticsCache'.isUpdating
                /\ returned'.pc = "done" /\ ~returned'.guardHit
                /\ (PrimaryUsable(returned') /\ ~GeoThrows(returned'.geoResponse)) =>
                      /\ analyticsCache'.data = returned'.ret
                      /\ analyticsCache'.lastUpdated = Date(returned'.now)
                      /\ returned'.ret.timeseries =
                            Aggregated(returned'.timeseriesResponse,
                                       returned'.geoResponse).timeseries
          /\ (CallStep /\ Len(calls) = 0) =>
                /\ Len(calls') = 1
                /\ calls'[1].pc = "awaitPrimary"
                /\ calls'[1].issuedPrimary = 1
                /\ calls'[1].now = clock
                /\ analyticsCache'.isUpdating
        ]_vars
    /\ (Len(calls) = 1 /\ calls[1].overlapped) ~> (RanPipeline /\ returned.overlapped)

\* a run that calls came in on has committed its snapshot, and the next call
\* has started a new run
C24_Witness ==
    /\ Committed
    /\ returned.overlapped
    /\ Len(calls) = 1
    /\ calls[1].pc = "awaitPrimary"
    /\ calls[1].caller = "timer"
    /\ analyticsCache.isUpdating

\* the run that settled last left the try block by an exception
RunFailed == RanPipeline /\ (returned.primaryFailed \/ returned.threw)

\* C25: a snapshot with an error marker is never stored.  In every state the
\* cache holds no snapshot or one without an error marker that a run built
\* on its success path; a run that fails with nothing cached leaves the
\* cache without snapshot and timestamp; the snapshot a run returns has an
\* error marker iff the run failed with nothing cached (a stale-served one
\* has none), and a call turned away by the single-flight test returns no
\* error marker either.
C25_ErrorNeverCached ==
    /\ analyticsCache.data # Null =>
          /\ "error" \notin DOMAIN analyticsCache.data
          /\ "siteStatus" \in DOMAIN analyticsCache.data
    /\ (RunFailed /\ returned.cacheAtCall.data = Null) =>
          /\ "error" \in DOMAIN returned.ret
          /\ analyticsCache.data = Null
          /\ analyticsCache.lastUpdated = Null
    /\ (RunFailed /\ returned.cacheAtCall.data # Null) =>
          /\ returned.ret = returned.cacheAtCall.data
          /\ "error" \notin DOMAIN returned.ret
    /\ (RanPipeline /\ ~RunFailed) => "error" \notin DOMAIN returned.ret
    /\ (Settled /\ returned.guardHit) => "error" \notin DOMAIN returned.ret

\* a timer run failed on a malformed record with nothing cached: it returned
\* the error snapshot and the cache is still empty
C25_Witness ==
    /\ RunFailed
    /\ returned.threw
    /\ returned.caller = "timer"
    /\ "error" \in DOMAIN returned.ret
    /\ analyticsCache.data = Null
    /\ analyticsCache.lastUpdated = Null

\* the primary query of the run returned a response without hourly records
NoRecords(frame) ==
    /\ ~frame.primaryFailed
    /\ frame.timeseriesResponse # Null
    /\ GroupsOf(frame.timeseriesResponse) = <<>>

\* C26: a primary response without hourly records (no data, no zone, or a
\* zone without buckets) is a success.  The run resolves with a snapshot
\* that has an empty time series, totals that are all 0 and no error marker,
\* and in the step in which it ends that snapshot replaces whatever was
\* cached, a non-empty snapshot too, and lastUpdated becomes the run's
\* reference time, not earlier than it was; the cached snapshot is not
\* served in its place.
C26_NoRecordsIsSuccess ==
    /\ [](( /\ RanPipeline
            /\ NoRecords(returned)
            /\ ~GeoThrows(returned.geoResponse) ) =>
              /\ returned.settled = "resolved"
              /\ returned.ret # Null
              /\ "error" \notin DOMAIN returned.ret
              /\ returned.ret.timeseries = <<>>
              /\ \A f \in {"requests", "pageviews", "bytes", "threats", "uniques",
                            "cachedRequests", "cachedBytes"} :
                    f \in DOMAIN returned.ret.totals /\ returned.ret.totals[f] = 0
              /\ returned.ret.lastUpdated = ToISOString(returned.now))
    /\ [][ ( /\ EndStep
             /\ NoRecords(returned')
             /\ ~GeoThrows(returned'.geoResponse) ) =>
               /\ analyticsCache'.data = returned'.ret
               /\ analyticsCache'.lastUpdated = Date(returned'.now)
               /\ analyticsCache.data # Null =>
                     analyticsCache'.lastUpdated.time >= analyticsCache.lastUpdated.time
        ]_vars

\* a timer run whose primary response had a zone without buckets has
\* committed an empty snapshot at the latest instant
C26_Witness ==
    /\ Committed
    /\ returned.caller = "timer"
    /\ returned.timeseriesResponse = ZoneBody(<<>>)
    /\ returned.ret.timeseries = <<>>
    /\ returned.ret.totals.requests = 0
    /\ analyticsCache.lastUpdated = Date(MaxTime)

\* C27: lastUpdated never decreases.  A step that changes lastUpdated is one
\* in which a run ends and stores its snapshot; the value stored is the
\* reference time the run read when it was called, and it is not earlier
\* than the value it replaces; every step that stores a snapshot sets
\* lastUpdated to the reference time of the run that built it; and once
\* set, lastUpdated stays set.
C27_LastUpdatedMonotone ==
    [][ /\ analyticsCache'.lastUpdated # analyticsCache.lastUpdated =>
            /\ EndStep
            /\ ~returned'.guardHit /\ ~returned'.primaryFailed /\ ~returned'.threw
            /\ analyticsCache'.data = returned'.ret
            /\ analyticsCache'.lastUpdated = Date(returned'.now)
            /\ returned'.now <= clock
            /\ analyticsCache.lastUpdated # Null =>
                  analyticsCache'.lastUpdated.time >= analyticsCache.lastUpdated.time
        /\ (EndStep /\ analyticsCache'.data = returned'.ret /\ returned'.ret # Null
               /\ ~returned'.primaryFailed /\ ~returned'.threw) =>
              analyticsCache'.lastUpdated = Date(returned'.now)
        /\ analyticsCache.lastUpdated # Null => analyticsCache'.lastUpdated # Null
      ]_vars

\* a run called by a request at an earlier instant has committed at a later
\* one, and lastUpdated is the earlier instant
C27_Witness ==
    /\ Committed
    /\ returned.caller = "request"
    /\ returned.now < clock
    /\ analyticsCache.lastUpdated = Date(returned.now)

\* C28: failure is not sticky.  Whatever came before, failed runs included,
\* a run that ends with records that could be aggregated resolves with a
\* snapshot without error marker, stores it and sets lastUpdated to its own
\* reference time, not earlier than the value replaced; after a failed run
\* isUpdating is false, so the next call passes the single-flight test; and
\* if the timer keeps firing and the upstream does not fail for ever, a
\* failed run is followed by a run that commits.
C28_FailureNotSticky ==
    /\ [][ (EndStep /\ PrimaryUsable(returned') /\ ~GeoThrows(returned'.geoResponse)) =>
              /\ returned'.settled = "resolved"
              /\ "error" \notin DOMAIN returned'.ret
              /\ analyticsCache'.data = returned'.ret
              /\ analyticsCache'.lastUpdated = Date(returned'.now)
              /\ analyticsCache.lastUpdated # Null =>
                    analyticsCache'.lastUpdated.time >= analyticsCache.lastUpdated.time
        ]_vars
    /\ [](RunFailed => (~analyticsCache.isUpdating \/ Len(calls) = 1))
    /\ RunFailed ~> (Committed /\ analyticsCache.lastUpdated = Date(returned.now))

\* a timer run whose primary response arrived when the last call to settle
\* was a failed run has committed its snapshot
C28_Witness ==
    /\ Committed
    /\ returned.afterFailure
    /\ returned.caller = "timer"
    /\ "error" \notin DOMAIN returned.ret
    /\ analyticsCache.lastUpdated = Date(returned.now)
    /\ ~analyticsCache.isUpdating

----------------------------------------------------------------------------
(* Properties of the dashboard client *)

\* a step in which a call of the client's fetchAnalytics ends
FetchEnds == Len(dashboard'.fetches) < Len(dashboard.fetches)

\* C29: the client's fetchAnalytics is single-flight.  At most one request
\* is in flight and isLoading is true exactly while one is; a call made
\* while isLoading is true, whatever makes it, sends nothing and leaves the
\* request in flight as it is; every call that sent a request ends with
\* isLoading false, whether the response was a snapshot, a status that is
\* not OK, a body that is not JSON, null, or a payload with an error
\* field; and the displayed metrics change only when a call ends that got
\* an OK response with a payload without error field, whose totals are then
\* displayed: a payload with an error field shows the error instead.
C29_ClientSingleFlight ==
    /\ [](/\ Len(dashboard.fetches) <= 1
          /\ dashboard.isLoading <=> (Len(dashboard.fetches) = 1))
    /\ [][
          /\ dashboard.isLoading =>
                /\ Len(dashboard'.fetches) <= Len(dashboard.fetches)
                /\ dashboard'.lastCall # dashboard.lastCall =>
                      /\ ~dashboard'.lastCall.sent
                      /\ dashboard'.fetches = dashboard.fetches
                      /\ dashboard'.isLoading
          /\ FetchEnds =>
                /\ ~dashboard'.isLoading
                /\ dashboard'.settled.response # Null
                /\ dashboard'.settled.threw =>
                      /\ dashboard'.metrics = dashboard.metrics
                      /\ dashboard'.errorMessage # ""
                /\ "error" \in DOMAIN dashboard'.settled.response.body =>
                      dashboard'.settled.threw
          /\ dashboard'.metrics # dashboard.metrics =>
                /\ FetchEnds
                /\ dashboard'.settled.response.status = 200
                /\ "error" \notin DOMAIN dashboard'.settled.response.body
                /\ dashboard'.metrics.totals = dashboard'.settled.response.body.totals
        ]_vars

\* the retry button got the error snapshot while a snapshot was on display:
\* the metrics are still there, the error is shown, isLoading is false
C29_Witness ==
    /\ dashboard.constructed
    /\ dashboard.settled # Null
    /\ dashboard.settled.source = "retry"
    /\ dashboard.settled.response.body = ErrorSnapshot(0)
    /\ dashboard.metrics # Null
    /\ dashboard.metrics.totals.requests > 0
    /\ dashboard.errorMessage # ""
    /\ ~dashboard.isLoading

----------------------------------------------------------------------------
(* Properties of the webhook listener *)

\* C30: the webhook listener starts a deployment only for a POST to
\* /webhook that was received whole, whose event header is push, whose body
\* is JSON with ref refs/heads/main, and whose signature passes: no secret
\* is configured, or the header is present and is 'sha256=' followed by the
\* HMAC of the body under the secret.  With a secret configured, a missing
\* or empty signature and one that differs from the expected one, in
\* content or in length, start nothing.  The number of deployments grows
\* only in such a step, by one.
C30_DeployOnlyVerifiedPushToMain ==
    /\ [](webhook.last # Null =>
            LET req == webhook.last.request
                secret == webhook.WEBHOOK_SECRET
            IN /\ webhook.last.deployed =>
                    /\ req.method = "POST"
                    /\ req.url = "/webhook"
                    /\ req.transport = "end"
                    /\ req.event = "push"
                    /\ req.body.json
                    /\ req.body.ref = "refs/heads/main"
                    /\ webhook.last.status = 200
                    /\ \/ secret = ""
                       \/ /\ req.signature # Null
                          /\ req.signature.len = SignatureLength
                          /\ req.signature.digest = Hmac(secret, req.body)
               /\ ( /\ secret # ""
                    /\ \/ req.signature = Null
                       \/ req.signature # ExpectedSignature(secret, req.body) ) =>
                     ~webhook.last.deployed)
    /\ [][ /\ webhook'.deployments # webhook.deployments =>
                /\ webhook'.deployments = webhook.deployments + 1
                /\ webhook'.last.deployed
          /\ (webhook'.last # webhook.last /\ webhook.started) =>
                webhook'.deployments =
                   webhook.deployments + (IF webhook'.last.deployed THEN 1 ELSE 0)
        ]_vars

\* with a secret configured, a signed push to main has started a second
\* deployment
C30_Witness ==
    /\ webhook.started
    /\ webhook.WEBHOOK_SECRET # ""
    /\ webhook.deployments = 2
    /\ webhook.last.deployed
    /\ webhook.last.request.signature =
          ExpectedSignature(webhook.WEBHOOK_SECRET, webhook.last.request.body)

====
